---- MODULE Spec2Model ----
(***************************************************************************)
(* A model of the documentor agent: the LangGraph pipeline built in        *)
(* educator_agent.py from the nodes of agent_nodes.py, and the response    *)
(* cache of llm_utils.call_llm.                                            *)
(*                                                                         *)
(* Python lists are sequences; a Python index i (0-based, negative values  *)
(* counting from the end) is kept as the integer the code holds.           *)
(***************************************************************************)
EXTENDS Integers, Sequences, FiniteSets, TLC

(***************************************************************************)
(* Bounds of the model.                                                    *)
(***************************************************************************)
NumFiles == 1
MaxComponents == 2
MaxFileRefs == 1
MaxRelationships == 1
MaxOrdered == 2
MaxRuns == 2
MaxLabelLen == 33
MaxLoopPages == 3
NumCallers == 2

VARIABLES
    \* the entry point that runs (cli.py or main.py) and what it finds
    entry, environment,
    \* State (state.py) and the inputs of educator_agent.invoke
    files, project_name, max_components, use_cache,
    components, project_overview, component_relationships,
    ordered_components, pages_to_process, pages_processed, pages,
    output_path,
    \* the compiled graph's scheduling and a run's outcome
    active, status, failedNode, error, history, run, extCalls,
    \* the prompt each page of `pages` was generated from
    prompts,
    \* how the process of the entry point ended, and what it printed last
    exit_status,
    \* the documents the current run has written under docs/<project_name>
    docs,
    \* agent_cache.json and the last call_llm invocation
    cacheFile, lastCall, storedBy,
    \* the call_llm invocations in flight at the same time, by caller
    calls

inputVars == <<entry, environment, files, project_name, max_components, use_cache>>
stateVars == <<components, project_overview, component_relationships,
               ordered_components, pages_to_process, pages_processed, pages,
               output_path>>
graphVars == <<active, status, failedNode, error, history, run, extCalls,
               prompts, exit_status>>
cacheVars == <<cacheFile, lastCall, storedBy, calls>>
vars == <<inputVars, stateVars, graphVars, docs, cacheVars>>

(***************************************************************************)
(* Python sequence indexing.                                               *)
(***************************************************************************)
\* seq[i] raises IndexError unless -len <= i < len
InRange(seq, i) == i >= -Len(seq) /\ i < Len(seq)

\* seq[i] for an index in range: a negative index counts from the end
PyGet(seq, i) == IF i >= 0 THEN seq[i + 1] ELSE seq[Len(seq) + i + 1]

SeqsUpTo(S, k) == UNION {[1..m -> S] : m \in 0..k}

Min(S) == CHOOSE x \in S : \A y \in S : x <= y

(***************************************************************************)
(* What the external service may answer.                                   *)
(***************************************************************************)
Names == {"Ab", "c-D"}

\* the indices a response may hold for a list of n elements: every valid
\* one, the negative ones Python accepts, and one beyond each end
IndexRange(n) == -(n + 1)..n

ComponentValues == [name : Names, files : SeqsUpTo(IndexRange(NumFiles), MaxFileRefs)]

ComponentLists == SeqsUpTo(ComponentValues, MaxComponents)

\* the characters of a label, one for each place so that places can be told
\* apart
Characters ==
    <<"a", "b", "c", "d", "e", "f", "g", "h", "i", "j", "k", "l", "m", "n", "o",
      "p", "q", "r", "s", "t", "u", "v", "w", "x", "y", "z", "A", "B", "C", "D",
      "E", "F", "G", "H", "I", "J", "K", "L", "M", "N">>

\* a label of len characters (a text, one character per element), with a
\* double quote as its first character and a line break as its second when
\* asked for
Label(len, quoted, broken) ==
    [i \in 1..len |-> IF quoted /\ i = 1 THEN "\""
                      ELSE IF broken /\ i = 2 THEN "\n"
                      ELSE Characters[i]]

LabelsUpTo(k) == {Label(len, q, b) : len \in 0..k, q \in BOOLEAN, b \in BOOLEAN}

\* the label of the relationships of a whole run: one short label with a
\* quote and a line break (the stages before the directory stage pass a
\* label on unread; AssemblySpec below covers the other labels)
RunLabels == {Label(MaxRelationships + 2, TRUE, TRUE)}

RelationshipsOf(indices, labels) ==
    SeqsUpTo([from_component : indices, to_component : indices, label : labels],
             MaxRelationships)

RelationshipLists(n) == RelationshipsOf(IndexRange(n), RunLabels)

OrderedLists(n) == SeqsUpTo(IndexRange(n), MaxOrdered)

(***************************************************************************)
(* Text.  A text is a sequence of tokens; a token is a run of characters   *)
(* that the code never looks inside (a literal of the code, a decimal      *)
(* digit, a component name, a blank, a line break, any other prose).       *)
(***************************************************************************)
NL == "\n"
SP == " "
ChapterToken == "# Chapter "
HashToken == "# "
Whitespace == {SP, NL}
\* the tokens whose first character is '#'
HashTokens == {ChapterToken, HashToken}

DigitChars == <<"0", "1", "2", "3", "4", "5", "6", "7", "8", "9">>

RECURSIVE Decimal(_)
\* f"{n}" for n >= 0, one token per digit
Decimal(n) ==
    IF n < 10 THEN <<DigitChars[n + 1]>>
    ELSE Decimal(n \div 10) \o <<DigitChars[(n % 10) + 1]>>

\* s.startswith(p)
StartsWith(s, p) == Len(s) >= Len(p) /\ SubSeq(s, 1, Len(p)) = p

RECURSIVE LStrip(_)
LStrip(s) == IF s # <<>> /\ Head(s) \in Whitespace THEN LStrip(Tail(s)) ELSE s

RECURSIVE RStrip(_)
RStrip(s) ==
    IF s # <<>> /\ s[Len(s)] \in Whitespace THEN RStrip(SubSeq(s, 1, Len(s) - 1))
    ELSE s

\* s.strip()
Strip(s) == RStrip(LStrip(s))

RECURSIVE SplitLines(_)
\* s.split("\n"): the lines of s, at least one
SplitLines(s) ==
    IF \E i \in 1..Len(s) : s[i] = NL
    THEN LET i == Min({j \in 1..Len(s) : s[j] = NL})
         IN  <<SubSeq(s, 1, i - 1)>> \o SplitLines(SubSeq(s, i + 1, Len(s)))
    ELSE <<s>>

RECURSIVE JoinLines(_)
\* "\n".join(lines)
JoinLines(lines) ==
    IF lines = <<>> THEN <<>>
    ELSE IF Len(lines) = 1 THEN lines[1]
    ELSE lines[1] \o <<NL>> \o JoinLines(Tail(lines))

\* f"# Chapter {num}"
HeadingPrefix(num) == <<ChapterToken>> \o Decimal(num)

\* f"# Chapter {num}: {name}"
PageHeading(num, name) == HeadingPrefix(num) \o <<": ", name>>

\* component_page_processor's post-processing of the returned text
EnsureHeading(page_content, num, name) ==
    IF StartsWith(Strip(page_content), HeadingPrefix(num))
    THEN page_content
    ELSE LET lines == SplitLines(Strip(page_content))
         IN  IF Len(lines) > 0 /\ Strip(lines[1]) # <<>>
                /\ Head(Strip(lines[1])) \in HashTokens
             THEN JoinLines(<<PageHeading(num, name)>> \o Tail(lines))
             ELSE PageHeading(num, name) \o <<NL, NL>> \o page_content

\* the texts the service may return for chapter num of component name
PageResponses(num, name) ==
    LET body == <<NL, "text">>
    IN  {PageHeading(num, name) \o body,
         <<SP>> \o PageHeading(num, name) \o body,
         HeadingPrefix(num) \o <<"0", ": ", name>> \o body,
         <<HashToken, "Intro">> \o body,
         <<"text">>}
        \cup {PageHeading(num, other) \o body : other \in Names \ {name}}

(***************************************************************************)
(* File names.                                                             *)
(***************************************************************************)
\* two characters outside ASCII, written by their code points: LATIN CAPITAL
\* LETTER I WITH DOT ABOVE and COMBINING DOT ABOVE
CapitalDottedI == "U+0130"
CombiningDot == "U+0307"

\* a name that begins with the capital dotted I
DottedName == "U+0130s"

\* the names a response may hold when every kind of character is allowed
WideNames == Names \cup {DottedName}

\* the characters of each name
NameChars(name) ==
    CASE name = "Ab" -> <<"A", "b">>
      [] name = "c-D" -> <<"c", "-", "D">>
      [] name = DottedName -> <<CapitalDottedI, "s">>
      [] OTHER -> <<>>

\* c.isalnum(): letters and digits; the combining dot is a mark
IsAlnum(c) == c \in {"A", "b", "c", "D", "a", "d", "i", "s", CapitalDottedI}

\* c.lower(), a string: the capital dotted I becomes "i" and a combining dot
Lower(c) ==
    CASE c = "A" -> <<"a">>
      [] c = "D" -> <<"d">>
      [] c = CapitalDottedI -> <<"i", CombiningDot>>
      [] OTHER -> <<c>>

RECURSIVE Sanitize(_)
\* ''.join(c if c.isalnum() else '_' for c in name).lower()
Sanitize(chars) ==
    IF chars = <<>> THEN <<>>
    ELSE Lower(IF IsAlnum(Head(chars)) THEN Head(chars) ELSE "_")
             \o Sanitize(Tail(chars))

\* f"{num:02d}"
ZeroPad2(num) == IF num < 10 THEN <<"0">> \o Decimal(num) ELSE Decimal(num)

\* f"{num:02d}_{safe_name}.md"
FileName(num, name) ==
    ZeroPad2(num) \o <<"_">> \o Sanitize(NameChars(name)) \o <<".md">>

(***************************************************************************)
(* components_pages_planner.  Positions of ordered_components are 1-based  *)
(* here: position p is Python's i = p - 1, and its chapter number i + 1    *)
(* is p.                                                                   *)
(***************************************************************************)
NoPage == [title |-> "", number |-> 0, component_index |-> 0, file_name |-> <<>>]

\* the guard of both loops: `if 0 > component_index >= len(components): continue`
PlannerSkips(component_index, n) == 0 > component_index /\ component_index >= n

\* the positions of ordered_components that a loop does not skip
KeptPositions(comps, ordered) ==
    SelectSeq([p \in 1..Len(ordered) |-> p],
              LAMBDA p : ~PlannerSkips(ordered[p], Len(comps)))

\* the first loop raises IndexError at components[component_index]
MetadataRaises(comps, ordered) ==
    \E k \in 1..Len(KeptPositions(comps, ordered)) :
        ~InRange(comps, ordered[KeptPositions(comps, ordered)[k]])

\* docs_metadata, when the first loop does not raise
DocsMetadata(comps, ordered) ==
    LET kept == KeptPositions(comps, ordered)
    IN  [k \in 1..Len(kept) |->
            LET p == kept[k]
                name == PyGet(comps, ordered[p]).name
            IN  [title |-> name, number |-> p, component_index |-> ordered[p],
                 file_name |-> FileName(p, name)]]

\* all_docs_names_listing: one line per entry of docs_metadata
AllDocsNamesListing(meta) ==
    [k \in 1..Len(meta) |-> <<meta[k].number, meta[k].title, meta[k].file_name>>]

\* the first IndexError of the second loop's iteration at position p, or "none"
PlanEntryError(fs, comps, ordered, meta, p) ==
    LET component_details == PyGet(comps, ordered[p])
    IN  IF \E j \in 1..Len(component_details.files) :
               ~InRange(fs, component_details.files[j])
        THEN "IndexError: files"
        ELSE IF p > 1 /\ ~InRange(meta, ordered[p - 1])
        THEN "IndexError: docs_metadata"
        ELSE IF p < Len(ordered) /\ ~InRange(meta, ordered[p + 1])
        THEN "IndexError: docs_metadata"
        ELSE IF ~InRange(meta, p - 1)
        THEN "IndexError: docs_metadata"
        ELSE "none"

\* the exception components_pages_planner raises, or "none"
PlannerError(fs, comps, ordered) ==
    IF MetadataRaises(comps, ordered) THEN "IndexError: components"
    ELSE LET kept == KeptPositions(comps, ordered)
             meta == DocsMetadata(comps, ordered)
             bad == {k \in 1..Len(kept) :
                        PlanEntryError(fs, comps, ordered, meta, kept[k]) # "none"}
         IN  IF bad = {} THEN "none"
             ELSE PlanEntryError(fs, comps, ordered, meta, kept[Min(bad)])

\* a plan whose file names are taken from the other end of docs_metadata
PagesToProcessNamedFromEnd(comps, ordered) ==
    LET kept == KeptPositions(comps, ordered)
        meta == DocsMetadata(comps, ordered)
    IN  [k \in 1..Len(kept) |->
            LET p == kept[k]
            IN  [component_num |-> p,
                 component_index |-> ordered[p],
                 all_pages_names_listing |-> AllDocsNamesListing(meta),
                 prev_page |-> IF p > 1 THEN PyGet(meta, ordered[p - 1]) ELSE NoPage,
                 next_page |-> IF p < Len(ordered) THEN PyGet(meta, ordered[p + 1])
                               ELSE NoPage,
                 file_name |-> PyGet(meta, Len(meta) - p).file_name]]

\* a plan that lists the kept positions last first
PagesToProcessLastFirst(comps, ordered) ==
    LET kept == KeptPositions(comps, ordered)
        meta == DocsMetadata(comps, ordered)
    IN  [k \in 1..Len(kept) |->
            LET p == kept[Len(kept) + 1 - k]
            IN  [component_num |-> p,
                 component_index |-> ordered[p],
                 all_pages_names_listing |-> AllDocsNamesListing(meta),
                 prev_page |-> IF p > 1 THEN PyGet(meta, ordered[p - 1]) ELSE NoPage,
                 next_page |-> IF p < Len(ordered) THEN PyGet(meta, ordered[p + 1])
                               ELSE NoPage,
                 file_name |-> PyGet(meta, p - 1).file_name]]

\* pages_to_process, when the planner does not raise
PagesToProcess(comps, ordered) ==
    LET kept == KeptPositions(comps, ordered)
        meta == DocsMetadata(comps, ordered)
    IN  [k \in 1..Len(kept) |->
            LET p == kept[k]
            IN  [component_num |-> p,
                 component_index |-> ordered[p],
                 all_pages_names_listing |-> AllDocsNamesListing(meta),
                 prev_page |-> IF p > 1 THEN PyGet(meta, ordered[p - 1]) ELSE NoPage,
                 next_page |-> IF p < Len(ordered) THEN PyGet(meta, ordered[p + 1])
                               ELSE NoPage,
                 file_name |-> PyGet(meta, p - 1).file_name]]

(***************************************************************************)
(* call_llm and agent_cache.json (llm_utils.py).                           *)
(*                                                                         *)
(* A value is a Python object: the AIMessage the chat model returns, the   *)
(* pydantic object a schema-bound model returns, or a str.  The file is    *)
(* absent, not JSON ("invalid"), JSON that is no object ("nondict") or a   *)
(* JSON object ("dict") whose rows are `table`.                            *)
(***************************************************************************)
Contexts == {"ctxA", "ctxB"}
\* the `type` argument: None or a schema class of models.py
Schemas == {"None", "Components", "OrderedComponents"}
Bodies == {"r1", "r2"}

\* hashlib.sha256(text.encode()).hexdigest()
Sha256(text) == <<"sha256", text>>

Hashes == {Sha256(c) : c \in Contexts}

\* the key call_llm computes for a request (line 15)
HashKey(llm_context, type) == Sha256(llm_context)

Missing == [kind |-> "missing", schema |-> "None", repr_of |-> "", body |-> ""]

\* what llm.invoke returns (lines 32-34): an AIMessage, or with a schema an
\* instance of it
ServiceOutput(type, body) ==
    [kind |-> IF type = "None" THEN "AIMessage" ELSE "BaseModel",
     schema |-> type, repr_of |-> "", body |-> body]

\* one value through json.dump(..., default=str) and json.load: a str stays
\* itself, any other object becomes the str that str(object) gives
JsonRoundTrip(v) ==
    IF v.kind = "str" THEN v
    ELSE [kind |-> "str", schema |-> v.schema, repr_of |-> v.kind, body |-> v.body]

EmptyTable == [h \in Hashes |-> Missing]

NotStored == [ctx |-> "", type |-> "None", returned |-> Missing]

\* os.path.exists(cache_file)
Exists(file) == file.kind # "absent"

\* json.load(f) returns (no exception) for this file with this read
Loads(file, readOk) == readOk /\ file.kind \in {"dict", "nondict"}

\* lines 17-24: the value returned from the cache, or Missing for a miss
Lookup(file, hash_key, readOk) ==
    IF Exists(file) /\ Loads(file, readOk) /\ file.kind = "dict"
    THEN file.table[hash_key]
    ELSE Missing

\* a table started empty at every store, whatever the file holds
CacheToUpdateFresh(file, readOk) == [kind |-> "dict", table |-> EmptyTable]

\* lines 38-44: the `cache` that line 45 assigns into
CacheToUpdate(file, readOk) ==
    IF Exists(file) /\ Loads(file, readOk) THEN file
    ELSE [kind |-> "dict", table |-> EmptyTable]

\* lines 45-48 raise: the loaded JSON is no dict (TypeError at line 45), or
\* the file cannot be opened or written
StoreError(file, readOk, write) ==
    IF CacheToUpdate(file, readOk).kind # "dict" THEN "TypeError"
    ELSE IF write # "ok" THEN "OSError"
    ELSE "none"

\* agent_cache.json after lines 36-48
Store(file, hash_key, output, readOk, write) ==
    LET cache == CacheToUpdate(file, readOk)
    IN  IF cache.kind # "dict" \/ write = "open_fails" THEN file
        ELSE IF write = "truncated" THEN [kind |-> "invalid", table |-> EmptyTable]
        ELSE [kind |-> "dict",
              table |-> [h \in Hashes |->
                            IF h = hash_key THEN JsonRoundTrip(output)
                            ELSE IF cache.table[h] = Missing THEN Missing
                            ELSE JsonRoundTrip(cache.table[h])]]

\* the callers of call_llm that may run at the same time
Callers == 1..NumCallers

\* a caller that has not called yet
NotCalling == [pc |-> "idle", ctx |-> "", output |-> Missing,
               cache |-> [kind |-> "dict", table |-> EmptyTable],
               during |-> FALSE, raced |-> FALSE]

NoCalls == [c \in Callers |-> NotCalling]

NoCall == [ctx |-> "", type |-> "None", use_cache |-> FALSE, outcome |-> "none",
           error |-> "none", invoked |-> FALSE, output |-> Missing, ret |-> Missing]

(***************************************************************************)
(* The compiled graph (build_educator_agent).                              *)
(***************************************************************************)
Segregator == "component_segregator"
Analyser == "component_relationship_analyser"
Ordering == "component_ordering"
Planner == "components_pages_planner"
Processor == "component_page_processor"
Directory == "pages_to_documentation_directory"
END == "END"

\* route_based_on_pages_remaining leaving the loop one page early
RouteOnePageEarly(processed, plan) ==
    IF processed + 1 < Len(plan) THEN "pages_to_process" ELSE "no_page_to_process"

\* route_based_on_pages_remaining
RouteBasedOnPagesRemaining(processed, plan) ==
    IF processed < Len(plan) THEN "pages_to_process" ELSE "no_page_to_process"

\* a path map that ends the run when no page remains
PathMapPastDirectory(route) ==
    CASE route = "pages_to_process" -> Processor
      [] route = "no_page_to_process" -> END

\* the path map of both conditional edges
PathMap(route) ==
    CASE route = "pages_to_process" -> Processor
      [] route = "no_page_to_process" -> Directory

\* the edges with the analyser wired to the planner, past the ordering stage
SuccessorsPastOrdering(node, processed, plan) ==
    CASE node = "START" -> {Segregator}
      [] node = Segregator -> {Analyser}
      [] node = Analyser -> {Planner}
      [] node = Ordering -> {Planner}
      [] node = Planner -> {PathMap(RouteBasedOnPagesRemaining(processed, plan))}
      [] node = Processor -> {PathMap(RouteBasedOnPagesRemaining(processed, plan))}
      [] node = Directory -> {END}

\* the nodes that run after `node`, given the state it leaves
Successors(node, processed, plan) ==
    CASE node = "START" -> {Segregator}
      [] node = Segregator -> {Analyser}
      [] node = Analyser -> {Ordering}
      [] node = Ordering -> {Planner}
      [] node = Planner -> {PathMap(RouteBasedOnPagesRemaining(processed, plan))}
      [] node = Processor -> {PathMap(RouteBasedOnPagesRemaining(processed, plan))}
      [] node = Directory -> {END}

\* str(e) of the exceptions a run raises
ExceptionText(err) ==
    CASE err = "ServiceError" -> "Connection error."
      [] err = "ValueError" -> "Directory does not exist: dir"
      [] OTHER -> "list index out of range"

\* the process has not ended
Running == [exited |-> FALSE, code |-> 0, message |-> <<>>]

\* sys.exit(1) after the message
Exit1(message) == [exited |-> TRUE, code |-> 1, message |-> message]

\* main() returns after the message: the interpreter exits with status 0
Return0(message) == [exited |-> TRUE, code |-> 0, message |-> message]

\* educator_agent.invoke returned: both entry points print and return
Returned == Return0(<<"Documentation generated successfully!">>)

\* `except Exception as e` of the entry point: cli.py prints and exits with
\* status 1 (lines 114-116), main.py prints and returns (lines 58-59)
Caught(ep, err) ==
    IF ep = "cli" THEN Exit1(<<"Error: ", ExceptionText(err)>>)
    ELSE Return0(<<"Error: ", ExceptionText(err)>>)

\* the graph's step after `node` returned: END ends the run
Advance(node, processed, plan) ==
    LET next == Successors(node, processed, plan)
    IN  /\ active' = next \ {END}
        /\ status' = IF next = {END} THEN "done" ELSE "running"
        /\ history' = Append(history, node)
        /\ exit_status' = IF next = {END} THEN Returned ELSE exit_status
        /\ UNCHANGED <<failedNode, error, run>>

\* an exception that ends the run and takes the state back to the inputs
RaiseResetting(node, err) ==
    /\ active' = {}
    /\ status' = "failed"
    /\ failedNode' = node
    /\ error' = err
    /\ history' = Append(history, node)
    /\ exit_status' = Caught(entry, err)
    /\ components' = <<>>
    /\ project_overview' = ""
    /\ component_relationships' = <<>>
    /\ ordered_components' = <<>>
    /\ pages_to_process' = <<>>
    /\ pages_processed' = 0
    /\ pages' = <<>>
    /\ output_path' = <<>>
    /\ UNCHANGED <<run, docs>>

\* an exception raised inside `node` ends the run: nothing catches it in the graph
Raise(node, err) ==
    /\ active' = {}
    /\ status' = "failed"
    /\ failedNode' = node
    /\ error' = err
    /\ history' = Append(history, node)
    /\ exit_status' = Caught(entry, err)
    /\ UNCHANGED <<run, stateVars, docs>>

DefaultMaxComponents == 5

\* nothing written yet
NoDocs == [written |-> FALSE, nodes |-> <<>>, edges |-> <<>>, links |-> <<>>,
           chapters |-> <<>>]

\* what file_extractor returns for a directory holding n readable files:
\* a file is modelled by its position in the list
Extracted(n) == [i \in 1..n |-> i - 1]

\* what an entry point may find: the API key set or not, the path given
\* (missing, a regular file, a directory), and the number of files the
\* extraction yields
Environments ==
    [api_key : BOOLEAN, directory : {"missing", "file", "dir"},
     extracted : {0, NumFiles}]

\* no run started yet
PipelineIdle ==
    /\ components = <<>>
    /\ project_overview = ""
    /\ component_relationships = <<>>
    /\ ordered_components = <<>>
    /\ pages_to_process = <<>>
    /\ pages_processed = 0
    /\ pages = <<>>
    /\ output_path = <<>>
    /\ active = {}
    /\ status = "idle"
    /\ failedNode = ""
    /\ error = "none"
    /\ history = <<>>
    /\ run = 0
    /\ extCalls = 0
    /\ prompts = <<>>
    /\ exit_status = Running
    /\ docs = NoDocs

\* cli.py has checked its arguments and extracted the files of a project
\* directory (lines 64-97)
CliChecked ==
    /\ entry = "cli"
    /\ environment \in {e \in Environments :
                           e.api_key /\ e.directory = "dir" /\ e.extracted = NumFiles}
    /\ files = Extracted(environment.extracted)
    /\ project_name = "proj"
    /\ max_components = DefaultMaxComponents
    /\ use_cache \in BOOLEAN

Init ==
    /\ PipelineIdle
    /\ CliChecked
    /\ cacheFile = [kind |-> "absent", table |-> EmptyTable]
    /\ lastCall = NoCall
    /\ storedBy = [h \in Hashes |-> NotStored]
    /\ calls = NoCalls

\* educator_agent.invoke(inputs): a run starts from the inputs alone
StartRun ==
    /\ run' = run + 1
    /\ components' = <<>>
    /\ project_overview' = ""
    /\ component_relationships' = <<>>
    /\ ordered_components' = <<>>
    /\ pages_to_process' = <<>>
    /\ pages_processed' = 0
    /\ pages' = <<>>
    /\ output_path' = <<>>
    /\ active' = Successors("START", 0, <<>>)
    /\ status' = "running"
    /\ failedNode' = ""
    /\ error' = "none"
    /\ history' = <<>>
    /\ extCalls' = 0
    /\ prompts' = <<>>
    /\ exit_status' = Running
    /\ docs' = NoDocs

\* cli.py invokes the graph (lines 101-106); the tool is run again, on the
\* same inputs, after a run that completed
Invoke ==
    /\ entry = "cli"
    /\ status \in {"idle", "done"}
    /\ run < MaxRuns
    /\ StartRun
    /\ UNCHANGED <<inputVars, cacheVars>>

\* component_segregator: one direct call of the service, schema Components
ComponentSegregator ==
    /\ Segregator \in active
    /\ extCalls' = extCalls + 1
    /\ \/ \E resp \in ComponentLists :
            /\ components' = resp
            /\ Advance(Segregator, pages_processed, pages_to_process)
            /\ UNCHANGED <<project_overview, component_relationships,
                           ordered_components, pages_to_process, pages_processed,
                           pages, output_path, docs>>
       \/ Raise(Segregator, "ServiceError")
    /\ UNCHANGED <<inputVars, cacheVars, prompts>>

\* component_relationship_analyser: file indices out of range are skipped
\* (line 60), then one direct call, schema RelationshipAnalysisOutput
ComponentRelationshipAnalyser ==
    /\ Analyser \in active
    /\ extCalls' = extCalls + 1
    /\ \/ \E rels \in RelationshipLists(Len(components)) :
            /\ project_overview' = "overview"
            /\ component_relationships' = rels
            /\ Advance(Analyser, pages_processed, pages_to_process)
            /\ UNCHANGED <<components, ordered_components, pages_to_process,
                           pages_processed, pages, output_path, docs>>
       \/ Raise(Analyser, "ServiceError")
    /\ UNCHANGED <<inputVars, cacheVars, prompts>>

\* component_ordering raises IndexError building relationships_list (line 100)
OrderingRaises(comps, rels) ==
    \E k \in 1..Len(rels) :
        ~InRange(comps, rels[k].from_component) \/ ~InRange(comps, rels[k].to_component)

\* component_ordering: one direct call, schema OrderedComponents
ComponentOrdering ==
    /\ Ordering \in active
    /\ IF OrderingRaises(components, component_relationships)
       THEN /\ Raise(Ordering, "IndexError: components")
            /\ UNCHANGED extCalls
       ELSE /\ extCalls' = extCalls + 1
            /\ \/ \E ordered \in OrderedLists(Len(components)) :
                    /\ ordered_components' = ordered
                    /\ Advance(Ordering, pages_processed, pages_to_process)
                    /\ UNCHANGED <<components, project_overview,
                                   component_relationships, pages_to_process,
                                   pages_processed, pages, output_path, docs>>
               \/ Raise(Ordering, "ServiceError")
    /\ UNCHANGED <<inputVars, cacheVars, prompts>>

\* components_pages_planner: no call of the service
ComponentsPagesPlanner ==
    /\ Planner \in active
    /\ LET err == PlannerError(files, components, ordered_components)
       IN  IF err # "none"
           THEN Raise(Planner, err)
           ELSE LET plan == PagesToProcess(components, ordered_components)
                IN  /\ pages_to_process' = plan
                    /\ pages_processed' = 0
                    /\ Advance(Planner, 0, plan)
                    /\ UNCHANGED <<components, project_overview,
                                   component_relationships, ordered_components,
                                   pages, output_path, docs>>
    /\ UNCHANGED <<inputVars, cacheVars, extCalls, prompts>>

\* the IndexError component_page_processor raises before its call, or "none"
ProcessorError(fs, comps, page) ==
    IF ~InRange(comps, page.component_index) THEN "IndexError: components"
    ELSE IF \E j \in 1..Len(PyGet(comps, page.component_index).files) :
                ~InRange(fs, PyGet(comps, page.component_index).files[j])
    THEN "IndexError: files"
    ELSE "none"

\* a field without a reducer: the update replaces the value
LastValue(old, update) == update

\* the reducer of `pages`, operator.add: the update is appended (state.py line 20)
OperatorAdd(old, update) == old \o update

PageSeparator == "\n--------\n"

\* a join that puts the newest page first
RECURSIVE JoinPagesNewestFirst(_)
JoinPagesNewestFirst(pgs) ==
    IF pgs = <<>> THEN <<>>
    ELSE IF Len(pgs) = 1 THEN pgs[1]
    ELSE JoinPagesNewestFirst(Tail(pgs)) \o <<PageSeparator>> \o pgs[1]

\* "\n--------\n".join(state["pages"]) (line 200)
RECURSIVE JoinPages(_)
JoinPages(pgs) ==
    IF pgs = <<>> THEN <<>>
    ELSE IF Len(pgs) = 1 THEN pgs[1]
    ELSE pgs[1] \o <<PageSeparator>> \o JoinPages(Tail(pgs))

FirstChapterNote == <<"This is the first chapter.">>

\* {prev_pages_context if prev_pages_context else "This is the first chapter."}
PrevPagesContext(pgs) ==
    IF JoinPages(pgs) = <<>> THEN FirstChapterNote ELSE JoinPages(pgs)

\* the context of the page's prompt: the chapter, its component, and what
\* the prompt holds of the pages written so far
Prompt(page, component_details, previous) ==
    [component_num |-> page.component_num,
     component_index |-> page.component_index,
     component_name |-> component_details.name,
     prev_pages_context |-> PrevPagesContext(previous)]

\* component_page_processor: one direct call of the service (free text), the
\* heading check, one page appended (the `pages` reducer is operator.add)
ComponentPageProcessor ==
    /\ Processor \in active
    /\ LET page == pages_to_process[pages_processed + 1]
           err == ProcessorError(files, components, page)
       IN  IF err # "none"
           THEN /\ Raise(Processor, err)
                /\ UNCHANGED <<extCalls, prompts>>
           ELSE LET component_details == PyGet(components, page.component_index)
                IN  /\ extCalls' = extCalls + 1
                    /\ \/ \E resp \in PageResponses(page.component_num,
                                                   component_details.name) :
                            /\ pages' = OperatorAdd(pages,
                                   <<EnsureHeading(resp, page.component_num,
                                                   component_details.name)>>)
                            /\ pages_processed' = pages_processed + 1
                            /\ prompts' = Append(prompts,
                                   Prompt(page, component_details, pages))
                            /\ Advance(Processor, pages_processed + 1, pages_to_process)
                            /\ UNCHANGED <<components, project_overview,
                                           component_relationships,
                                           ordered_components, pages_to_process,
                                           output_path, docs>>
                       \/ /\ Raise(Processor, "ServiceError")
                          /\ UNCHANGED prompts
    /\ UNCHANGED <<inputVars, cacheVars>>

Footer == <<"---", NL, NL, "Generated by Kritagya Khandelwal">>

\* chapter_content.endswith("\n\n")
EndsWithBlankLine(s) == Len(s) >= 2 /\ s[Len(s)] = NL /\ s[Len(s) - 1] = NL

\* a condition that also leaves out the first component
HasChapterAfterFirst(comps, ordered, pgs, p) ==
    0 < ordered[p] /\ ordered[p] < Len(comps) /\ p - 1 < Len(pgs)

\* the condition under which a position of the ordering gets a chapter (line 319)
HasChapter(comps, ordered, pgs, p) ==
    0 <= ordered[p] /\ ordered[p] < Len(comps) /\ p - 1 < Len(pgs)

\* the positions pages_to_documentation_directory writes a chapter for
ChapterPositions(comps, ordered, pgs) ==
    SelectSeq([p \in 1..Len(ordered) |-> p],
              LAMBDA p : HasChapter(comps, ordered, pgs, p))

\* chapter_files
ChapterFiles(comps, ordered, pgs) ==
    LET at == ChapterPositions(comps, ordered, pgs)
    IN  [k \in 1..Len(at) |->
            LET p == at[k]
            IN  [filename |-> FileName(p, comps[ordered[p] + 1].name),
                 content |-> pgs[p]
                             \o (IF EndsWithBlankLine(pgs[p]) THEN <<>> ELSE <<NL, NL>>)
                             \o Footer]]

\* the numbered chapter links of index.md
ChapterLinks(comps, ordered, pgs) ==
    LET at == ChapterPositions(comps, ordered, pgs)
    IN  [k \in 1..Len(at) |->
            LET p == at[k]
            IN  [number |-> p, name |-> comps[ordered[p] + 1].name,
                 filename |-> FileName(p, comps[ordered[p] + 1].name)]]

max_label_len == 30

\* a rendered label one character too long: the cut keeps max_label_len
\* characters before the dots
EdgeLabelCutLate(label) ==
    LET edge_label == [i \in 1..Len(SelectSeq(label, LAMBDA c : c # "\"")) |->
                          IF SelectSeq(label, LAMBDA c : c # "\"")[i] = NL THEN SP
                          ELSE SelectSeq(label, LAMBDA c : c # "\"")[i]]
    IN  IF Len(edge_label) > max_label_len
        THEN SubSeq(edge_label, 1, max_label_len) \o <<".", ".", ".">>
        ELSE edge_label

\* rel.label.replace('"', "")
RemoveQuotes(label) == SelectSeq(label, LAMBDA c : c # "\"")

\* .replace("\n", " ")
NewlinesToSpaces(label) == [i \in 1..Len(label) |-> IF label[i] = NL THEN SP ELSE label[i]]

\* the label of a diagram edge (lines 291-296)
EdgeLabel(label) ==
    LET edge_label == NewlinesToSpaces(RemoveQuotes(label))
    IN  IF Len(edge_label) > max_label_len
        THEN SubSeq(edge_label, 1, max_label_len - 3) \o <<".", ".", ".">>
        ELSE edge_label

\* the diagram's nodes, one for each component (lines 278-285)
MermaidNodes(comps) ==
    [i \in 1..Len(comps) |-> [id |-> i - 1, label |-> comps[i].name]]

\* a diagram that leaves out the edges from a component to itself
MermaidEdgesNoLoops(rels) ==
    LET kept == SelectSeq(rels, LAMBDA r : r.from_component # r.to_component)
    IN  [k \in 1..Len(kept) |->
            [from_id |-> kept[k].from_component, to_id |-> kept[k].to_component,
             label |-> EdgeLabel(kept[k].label)]]

\* the diagram's edges, one for each relationship (lines 287-299)
MermaidEdges(rels) ==
    [k \in 1..Len(rels) |->
        [from_id |-> rels[k].from_component, to_id |-> rels[k].to_component,
         label |-> EdgeLabel(rels[k].label)]]

\* pages_to_documentation_directory: the diagram, index.md and the chapter files
PagesToDocumentationDirectory ==
    /\ Directory \in active
    /\ docs' = [written |-> TRUE,
                nodes |-> MermaidNodes(components),
                edges |-> MermaidEdges(component_relationships),
                links |-> ChapterLinks(components, ordered_components, pages),
                chapters |-> ChapterFiles(components, ordered_components, pages)]
    /\ output_path' = <<"docs", project_name>>
    /\ Advance(Directory, pages_processed, pages_to_process)
    /\ UNCHANGED <<components, project_overview, component_relationships,
                   ordered_components, pages_to_process, pages_processed, pages>>
    /\ UNCHANGED <<inputVars, cacheVars, extCalls, prompts>>

Next ==
    \/ Invoke
    \/ ComponentSegregator
    \/ ComponentRelationshipAnalyser
    \/ ComponentOrdering
    \/ ComponentsPagesPlanner
    \/ ComponentPageProcessor
    \/ PagesToDocumentationDirectory

Spec == Init /\ [][Next]_vars

(***************************************************************************)
(* The entry points: cli.main and main.main, from their first line.        *)
(***************************************************************************)
\* the entry point ends before educator_agent.invoke: no run starts
Abort(result) ==
    /\ exit_status' = result
    /\ UNCHANGED <<files, project_name, max_components, use_cache, stateVars,
                   active, status, failedNode, error, history, run, extCalls,
                   prompts, docs>>

\* cli.main (lines 64-116): the key, the directory, the extraction, the run
CliMain ==
    /\ entry = "none"
    /\ entry' = "cli"
    /\ IF ~environment.api_key
       THEN Abort(Exit1(<<"Error: GOOGLE_API_KEY not found in environment variables.",
                          "Please set your Google API key in a .env file or environment variable.">>))
       ELSE IF environment.directory = "missing"
       THEN Abort(Exit1(<<"Error: Directory does not exist: ", "dir">>))
       ELSE IF environment.directory = "file"
       THEN Abort(Exit1(<<"Error: Path is not a directory: ", "dir">>))
       ELSE IF Len(Extracted(environment.extracted)) = 0
       THEN Abort(Exit1(<<"Warning: No files were extracted. Check your include/exclude patterns.">>))
       ELSE \E no_cache \in BOOLEAN :
               /\ files' = Extracted(environment.extracted)
               /\ project_name' = "proj"
               /\ max_components' = DefaultMaxComponents
               /\ use_cache' = ~no_cache
               /\ StartRun
    /\ UNCHANGED <<environment, cacheVars>>

\* main.main (lines 25-59): the key, the path, the extraction, the run;
\* file_extractor raises ValueError for a path that is no directory (line
\* 21-22); the inputs hold no use_cache
MainMain ==
    /\ entry = "none"
    /\ entry' = "main"
    /\ IF ~environment.api_key
       THEN Abort(Return0(<<"Warning: GOOGLE_API_KEY not found in environment variables.",
                            "Please set your Google API key in a .env file or environment variable.">>))
       ELSE IF environment.directory = "missing"
       THEN Abort(Return0(<<"Project directory not found: ", "dir",
                            "Please update the project_directory variable in main.py">>))
       ELSE IF environment.directory = "file"
       THEN Abort(Caught("main", "ValueError"))
       ELSE /\ files' = Extracted(environment.extracted)
            /\ project_name' = "Sample Project"
            /\ max_components' = DefaultMaxComponents
            /\ StartRun
            /\ UNCHANGED use_cache
    /\ UNCHANGED <<environment, cacheVars>>

\* nothing has run: either entry point may be started, in any environment
EntryInit ==
    /\ PipelineIdle
    /\ entry = "none"
    /\ environment \in Environments
    /\ files = <<>>
    /\ project_name = ""
    /\ max_components = DefaultMaxComponents
    /\ use_cache = TRUE
    /\ cacheFile = [kind |-> "absent", table |-> EmptyTable]
    /\ lastCall = NoCall
    /\ storedBy = [h \in Hashes |-> NotStored]
    /\ calls = NoCalls

\* the state the directory stage finds in a run whose ordering is empty,
\* for every label the analyser may have been given (the indices of a
\* relationship are those the ordering stage did not raise on)
AssemblyInit ==
    /\ CliChecked
    /\ use_cache = TRUE
    /\ components \in {c \in ComponentLists : Len(c) = 1 /\ c[1].files = <<>>}
    /\ project_overview = "overview"
    /\ component_relationships \in
           RelationshipsOf({i \in IndexRange(Len(components)) : InRange(components, i)},
                           LabelsUpTo(MaxLabelLen))
    /\ ordered_components = <<>>
    /\ pages_to_process = <<>>
    /\ pages_processed = 0
    /\ pages = <<>>
    /\ output_path = <<>>
    /\ active = {Directory}
    /\ status = "running"
    /\ failedNode = ""
    /\ error = "none"
    /\ history = <<Segregator, Analyser, Ordering, Planner>>
    /\ run = 1
    /\ extCalls = Len(history) - 1
    /\ prompts = <<>>
    /\ exit_status = Running
    /\ docs = NoDocs
    /\ cacheFile = [kind |-> "absent", table |-> EmptyTable]
    /\ lastCall = NoCall
    /\ storedBy = [h \in Hashes |-> NotStored]
    /\ calls = NoCalls

AssemblyNext == PagesToDocumentationDirectory

\* the directory stage alone, on relationships of every label
AssemblySpec == AssemblyInit /\ [][AssemblyNext]_vars

\* the state the planner leaves for the page loop: components whose file
\* indices are positions of files, an ordering of up to MaxLoopPages
\* entries that the planner accepted, and its plan
PageLoopInit ==
    /\ CliChecked
    /\ use_cache = TRUE
    /\ components \in
           {c \in ComponentLists :
               \A i \in 1..Len(c) : \A j \in 1..Len(c[i].files) :
                   c[i].files[j] >= 0 /\ c[i].files[j] < NumFiles}
    /\ project_overview = "overview"
    /\ component_relationships = <<>>
    /\ ordered_components \in
           {o \in SeqsUpTo({i \in IndexRange(Len(components)) : InRange(components, i)},
                           MaxLoopPages) :
               PlannerError(files, components, o) = "none"}
    /\ pages_to_process = PagesToProcess(components, ordered_components)
    /\ pages_processed = 0
    /\ pages = <<>>
    /\ output_path = <<>>
    /\ active = Successors(Planner, pages_processed, pages_to_process)
    /\ status = "running"
    /\ failedNode = ""
    /\ error = "none"
    /\ history = <<Segregator, Analyser, Ordering, Planner>>
    /\ run = 1
    /\ extCalls = Len(history) - 1
    /\ prompts = <<>>
    /\ exit_status = Running
    /\ docs = NoDocs
    /\ cacheFile = [kind |-> "absent", table |-> EmptyTable]
    /\ lastCall = NoCall
    /\ storedBy = [h \in Hashes |-> NotStored]
    /\ calls = NoCalls

\* the state the ordering stage leaves for the planner, for components of
\* every name of WideNames
PlannerInit ==
    /\ CliChecked
    /\ use_cache = TRUE
    /\ components \in SeqsUpTo([name : WideNames, files : {<<>>}], MaxComponents)
    /\ project_overview = "overview"
    /\ component_relationships = <<>>
    /\ ordered_components \in OrderedLists(Len(components))
    /\ pages_to_process = <<>>
    /\ pages_processed = 0
    /\ pages = <<>>
    /\ output_path = <<>>
    /\ active = {Planner}
    /\ status = "running"
    /\ failedNode = ""
    /\ error = "none"
    /\ history = <<Segregator, Analyser, Ordering>>
    /\ run = 1
    /\ extCalls = Len(history)
    /\ prompts = <<>>
    /\ exit_status = Running
    /\ docs = NoDocs
    /\ cacheFile = [kind |-> "absent", table |-> EmptyTable]
    /\ lastCall = NoCall
    /\ storedBy = [h \in Hashes |-> NotStored]
    /\ calls = NoCalls

PlannerNext ==
    \/ ComponentsPagesPlanner
    \/ ComponentPageProcessor
    \/ PagesToDocumentationDirectory

\* the planner, the page loop and the directory stage, on component names
\* of every kind of character
PlannerSpec == PlannerInit /\ [][PlannerNext]_vars

PageLoopNext ==
    \/ ComponentPageProcessor
    \/ PagesToDocumentationDirectory

\* the page loop and the directory stage, on plans of up to MaxLoopPages pages
PageLoopSpec == PageLoopInit /\ [][PageLoopNext]_vars

EntryNext ==
    \/ CliMain
    \/ MainMain
    \/ ComponentSegregator
    \/ ComponentRelationshipAnalyser
    \/ ComponentOrdering
    \/ ComponentsPagesPlanner
    \/ ComponentPageProcessor
    \/ PagesToDocumentationDirectory

\* one execution of either entry point
EntrySpec == EntryInit /\ [][EntryNext]_vars

(***************************************************************************)
(* call_llm (llm_utils.py).                                                *)
(***************************************************************************)
\* call_llm that reads and writes the table whatever use_cache says
CallLlmAlwaysCaching(llm_context, type, uc, lookupReadOk, serviceOk, body, storeReadOk, write) ==
    LET hash_key == HashKey(llm_context, type)
        cached == IF TRUE THEN Lookup(cacheFile, hash_key, lookupReadOk) ELSE Missing
        output == ServiceOutput(type, body)
        call == [ctx |-> llm_context, type |-> type, use_cache |-> uc,
                 outcome |-> "none", error |-> "none", invoked |-> FALSE,
                 output |-> Missing, ret |-> Missing]
    IN  IF cached # Missing
        THEN /\ lastCall' = [call EXCEPT !.outcome = "hit", !.ret = cached]
             /\ UNCHANGED <<cacheFile, storedBy>>
        ELSE IF ~serviceOk
        THEN /\ lastCall' = [call EXCEPT !.outcome = "raised", !.invoked = TRUE,
                                         !.error = "ServiceError"]
             /\ UNCHANGED <<cacheFile, storedBy>>
        ELSE IF FALSE
        THEN /\ lastCall' = [call EXCEPT !.outcome = "returned", !.invoked = TRUE,
                                         !.output = output, !.ret = output]
             /\ UNCHANGED <<cacheFile, storedBy>>
        ELSE LET err == StoreError(cacheFile, storeReadOk, write)
             IN  /\ cacheFile' = Store(cacheFile, hash_key, output, storeReadOk, write)
                 /\ lastCall' = IF err = "none"
                                THEN [call EXCEPT !.outcome = "returned",
                                                  !.invoked = TRUE,
                                                  !.output = output, !.ret = output]
                                ELSE [call EXCEPT !.outcome = "raised",
                                                  !.invoked = TRUE,
                                                  !.output = output, !.error = err]
                 /\ storedBy' = IF err = "none"
                                THEN [storedBy EXCEPT ![hash_key] =
                                         [ctx |-> llm_context, type |-> type,
                                          returned |-> output]]
                                ELSE storedBy

\* call_llm(llm_context, type, use_cache), with the faults of this invocation:
\* whether each read of the file succeeds, whether the service answers, and
\* how the write ends
CallLlm(llm_context, type, uc, lookupReadOk, serviceOk, body, storeReadOk, write) ==
    LET hash_key == HashKey(llm_context, type)
        cached == IF uc THEN Lookup(cacheFile, hash_key, lookupReadOk) ELSE Missing
        output == ServiceOutput(type, body)
        call == [ctx |-> llm_context, type |-> type, use_cache |-> uc,
                 outcome |-> "none", error |-> "none", invoked |-> FALSE,
                 output |-> Missing, ret |-> Missing]
    IN  IF cached # Missing
        THEN /\ lastCall' = [call EXCEPT !.outcome = "hit", !.ret = cached]
             /\ UNCHANGED <<cacheFile, storedBy>>
        ELSE IF ~serviceOk
        THEN /\ lastCall' = [call EXCEPT !.outcome = "raised", !.invoked = TRUE,
                                         !.error = "ServiceError"]
             /\ UNCHANGED <<cacheFile, storedBy>>
        ELSE IF ~uc
        THEN /\ lastCall' = [call EXCEPT !.outcome = "returned", !.invoked = TRUE,
                                         !.output = output, !.ret = output]
             /\ UNCHANGED <<cacheFile, storedBy>>
        ELSE LET err == StoreError(cacheFile, storeReadOk, write)
             IN  /\ cacheFile' = Store(cacheFile, hash_key, output, storeReadOk, write)
                 /\ lastCall' = IF err = "none"
                                THEN [call EXCEPT !.outcome = "returned",
                                                  !.invoked = TRUE,
                                                  !.output = output, !.ret = output]
                                ELSE [call EXCEPT !.outcome = "raised",
                                                  !.invoked = TRUE,
                                                  !.output = output, !.error = err]
                 /\ storedBy' = IF err = "none"
                                THEN [storedBy EXCEPT ![hash_key] =
                                         [ctx |-> llm_context, type |-> type,
                                          returned |-> output]]
                                ELSE storedBy

WriteOutcomes == {"ok", "open_fails", "truncated"}

\* one invocation of call_llm by a caller
CallLlmStep ==
    /\ \E llm_context \in Contexts, type \in Schemas, uc \in BOOLEAN,
          lookupReadOk \in BOOLEAN, serviceOk \in BOOLEAN, body \in Bodies,
          storeReadOk \in BOOLEAN, write \in WriteOutcomes :
            CallLlm(llm_context, type, uc, lookupReadOk, serviceOk, body,
                    storeReadOk, write)
    /\ UNCHANGED <<inputVars, stateVars, graphVars, docs, calls>>

\* the file as a first invocation may find it
CacheInit ==
    /\ PipelineIdle
    /\ CliChecked
    /\ use_cache = TRUE
    /\ cacheFile \in {[kind |-> k, table |-> EmptyTable] :
                        k \in {"absent", "invalid", "nondict", "dict"}}
    /\ lastCall = NoCall
    /\ storedBy = [h \in Hashes |-> NotStored]
    /\ calls = NoCalls

CacheNext == CallLlmStep

\* sequential invocations of call_llm against one agent_cache.json
CacheSpec == CacheInit /\ [][CacheNext]_vars

(***************************************************************************)
(* call_llm invoked by several callers at once (no lock in llm_utils.py).  *)
(* Each caller runs call_llm(llm_context, None, True); its steps are the   *)
(* accesses to agent_cache.json and the service call between them.  A read *)
(* of the file fails here only through what the file holds, which includes *)
(* what another caller has left of it.                                     *)
(***************************************************************************)
\* positions of a caller between its first access to the file and its end
InFlight == {"missed", "invoked", "loaded", "opened"}

\* positions of a caller that has left call_llm
Completed == {"hit", "returned", "raised"}

\* lines 13-24: the key and the guarded lookup; a hit returns at line 21
RaceLookup(c) ==
    /\ calls[c].pc = "idle"
    /\ \E llm_context \in Contexts :
         LET cached == Lookup(cacheFile, HashKey(llm_context, "None"), TRUE)
         IN  calls' = [calls EXCEPT ![c] =
                 [@ EXCEPT !.ctx = llm_context,
                           !.pc = IF cached # Missing THEN "hit" ELSE "missed",
                           !.output = cached,
                           !.during = \E d \in Callers \ {c} :
                                          calls[d].pc \in InFlight]]
    /\ UNCHANGED <<inputVars, stateVars, graphVars, docs,
                   cacheFile, lastCall, storedBy>>

\* lines 26-34: the service answers or raises
RaceInvoke(c) ==
    /\ calls[c].pc = "missed"
    /\ \E serviceOk \in BOOLEAN, body \in Bodies :
         calls' = [calls EXCEPT ![c] =
             IF serviceOk
             THEN [@ EXCEPT !.pc = "invoked", !.output = ServiceOutput("None", body)]
             ELSE [@ EXCEPT !.pc = "raised"]]
    /\ UNCHANGED <<inputVars, stateVars, graphVars, docs,
                   cacheFile, lastCall, storedBy>>

\* lines 36-45: the table is read again and the entry assigned into it; a
\* loaded value that is no dict raises TypeError at line 45
RaceLoad(c) ==
    /\ calls[c].pc = "invoked"
    /\ LET cache == CacheToUpdate(cacheFile, TRUE)
       IN  calls' = [calls EXCEPT ![c] =
               IF cache.kind # "dict"
               THEN [@ EXCEPT !.pc = "raised"]
               ELSE [@ EXCEPT !.pc = "loaded", !.cache = cache]]
    /\ UNCHANGED <<inputVars, stateVars, graphVars, docs,
                   cacheFile, lastCall, storedBy>>

\* line 47: open(cache_file, "w") truncates the file, or fails
RaceOpen(c) ==
    /\ calls[c].pc = "loaded"
    /\ \E opens \in BOOLEAN :
         IF opens
         THEN /\ cacheFile' = [kind |-> "invalid", table |-> EmptyTable]
              /\ calls' = [calls EXCEPT ![c] = [@ EXCEPT !.pc = "opened",
                                                         !.raced = FALSE]]
         ELSE /\ calls' = [calls EXCEPT ![c] = [@ EXCEPT !.pc = "raised"]]
              /\ UNCHANGED cacheFile
    /\ UNCHANGED <<inputVars, stateVars, graphVars, docs, lastCall, storedBy>>

\* line 48: json.dump writes this caller's table from offset 0 and the file
\* is closed; when another caller has written since this one's open, the
\* bytes of the two mix: the file holds this caller's table or no valid JSON
RaceDump(c) ==
    /\ calls[c].pc = "opened"
    /\ LET written == Store(calls[c].cache, HashKey(calls[c].ctx, "None"),
                            calls[c].output, TRUE, "ok")
       IN  cacheFile' \in IF calls[c].raced
                          THEN {written, [kind |-> "invalid", table |-> EmptyTable]}
                          ELSE {written}
    /\ calls' = [d \in Callers |->
                    IF d = c THEN [calls[d] EXCEPT !.pc = "returned"]
                    ELSE IF calls[d].pc = "opened"
                    THEN [calls[d] EXCEPT !.raced = TRUE]
                    ELSE calls[d]]
    /\ UNCHANGED <<inputVars, stateVars, graphVars, docs, lastCall, storedBy>>

RaceNext ==
    \E c \in Callers :
        \/ RaceLookup(c)
        \/ RaceInvoke(c)
        \/ RaceLoad(c)
        \/ RaceOpen(c)
        \/ RaceDump(c)

RaceInit == CacheInit

\* NumCallers invocations of call_llm, interleaved at their file accesses
RaceSpec == RaceInit /\ [][RaceNext]_vars

(***************************************************************************)
(* Properties of the graph and the page loop.                              *)
(***************************************************************************)
LinearStages == <<Segregator, Analyser, Ordering, Planner>>

\* h is a prefix of: the four linear stages, the processor any number of
\* times, the directory stage once
InStageOrder(h) ==
    \A i \in 1..Len(h) :
        IF i <= Len(LinearStages) THEN h[i] = LinearStages[i]
        ELSE h[i] = Processor \/ (h[i] = Directory /\ i = Len(h))

\* the stage that may start next, given the stages run so far
FollowsHistory(node, h) ==
    IF Len(h) < Len(LinearStages) THEN node = LinearStages[Len(h) + 1]
    ELSE node \in {Processor, Directory} /\ h[Len(h)] # Directory

\* C1: in every run the stages run one at a time in the order segregator,
\* analyser, ordering, planner, the page processor zero or more times, the
\* directory stage; the only repetition is the page processor after itself;
\* a stage is scheduled only when the one before it has returned; a run
\* that reaches END has run the directory stage exactly once, as its last.
C1_StageOrder ==
    /\ Cardinality(active) <= 1
    /\ InStageOrder(history)
    /\ \A node \in active : status = "running" /\ FollowsHistory(node, history)
    /\ status = "running" => active # {}
    /\ status = "done" =>
          /\ active = {}
          /\ Len(history) > Len(LinearStages)
          /\ history[Len(history)] = Directory
          /\ Cardinality({i \in 1..Len(history) : history[i] = Directory}) = 1

C1_Witness ==
    /\ status = "done"
    /\ history = LinearStages \o <<Processor, Processor, Directory>>

\* the calls of the service the page loop has made in this run: every call
\* but the one of each stage before the planner
LoopCalls == extCalls - Cardinality({Segregator, Analyser, Ordering})

PlanningCompleted ==
    /\ Len(history) >= Len(LinearStages)
    /\ ~(status = "failed" /\ failedNode = Planner)

Iterations == Cardinality({i \in 1..Len(history) : history[i] = Processor})

\* C2: once the planner has completed with k pages planned, the page loop
\* makes one call of the service per iteration and never more than k; it
\* stops only by a failed call or by routing to the directory stage, and it
\* routes there exactly when pages_processed = k, after exactly k calls;
\* with k = 0 the page processor is never entered.
C2_PageLoopTerminates ==
    PlanningCompleted =>
        /\ LoopCalls = Iterations
        /\ LoopCalls <= Len(pages_to_process)
        /\ status # "failed" => pages_processed = LoopCalls
        /\ Processor \in active => pages_processed < Len(pages_to_process)
        /\ status = "failed" => failedNode = Processor /\ error = "ServiceError"
        /\ (Directory \in active \/ status = "done") =>
              /\ pages_processed = Len(pages_to_process)
              /\ LoopCalls = Len(pages_to_process)
        /\ status = "running" =>
              (Processor \in active \/ Directory \in active)
        /\ Len(pages_to_process) = 0 => Iterations = 0 /\ Processor \notin active

C2_Witness ==
    /\ Directory \in active
    /\ Len(pages_to_process) = 2
    /\ LoopCalls = 2
    /\ pages_processed = 2

(***************************************************************************)
(* Properties of the cache.                                                *)
(***************************************************************************)
\* the request whose store wrote the row the last call looked up
LastStore == storedBy[HashKey(lastCall.ctx, lastCall.type)]

\* C3: a call whose payload (context and schema) was stored by an earlier
\* call and that is answered from the cache returns exactly the value the
\* storing call returned to its caller, without invoking the service.
C3_CacheRoundTrip ==
    (/\ lastCall.outcome = "hit"
     /\ LastStore.ctx = lastCall.ctx
     /\ LastStore.type = lastCall.type)
        => lastCall.ret = LastStore.returned /\ ~lastCall.invoked

\* C5: the fingerprint covers the context and the schema: a call is never
\* answered with a result that was stored for the same context under
\* another schema (or under none).
C5_FingerprintCoversSchema ==
    lastCall.outcome = "hit" =>
        LastStore.ctx = lastCall.ctx /\ LastStore.type = lastCall.type

\* C6: with the cache enabled, no fault of the cache file makes call_llm
\* raise: whenever the service answered, the call returns its result.
C6_CacheFaultsNeverFail ==
    (lastCall.use_cache /\ lastCall.outcome = "raised")
        => lastCall.error = "ServiceError"

\* the row of fingerprint h in the file, Missing when there is none
Row(file, h) == IF file.kind = "dict" THEN file.table[h] ELSE Missing

\* C7: the cache never evicts: every row of the table is still in the table,
\* with its value, after any invocation of call_llm that returns.
C7_NeverEvicts ==
    [][lastCall'.outcome \in {"hit", "returned"} =>
          \A h \in Hashes :
              Row(cacheFile, h) # Missing => Row(cacheFile', h) = Row(cacheFile, h)]_vars

(***************************************************************************)
(* Properties of a run of the pipeline.                                    *)
(***************************************************************************)
\* C4: a second run on the same inputs, after a first run that completed
\* with caching enabled, issues no call of the service in any stage.
C4_ReplayIssuesNoCalls ==
    (run = 2 /\ use_cache) => extCalls = 0

ValidPosition(i, n) == 0 <= i /\ i < n

\* C8: every page the page loop appended for a plan position N that names a
\* component begins with the heading "# Chapter N: <name>" of that position
\* and that component, whatever text the service returned.
C8_PageBeginsWithHeading ==
    \A i \in 1..Len(pages) :
        LET page == pages_to_process[i]
        IN  ValidPosition(page.component_index, Len(components)) =>
                StartsWith(pages[i],
                           PageHeading(page.component_num,
                                       components[page.component_index + 1].name))

PlannerHasRun == Len(history) >= Len(LinearStages)

\* C9: an ordering entry that is no valid component position is skipped by
\* the planner and the page loop: neither raises on it, and no plan entry
\* resolves it to a component.
C9_InvalidOrderingSkipped ==
    (/\ PlannerHasRun
     /\ \E p \in 1..Len(ordered_components) :
            ~ValidPosition(ordered_components[p], Len(components)))
        => /\ ~(status = "failed" /\ failedNode \in {Planner, Processor}
                  /\ error \in {"IndexError: components", "IndexError: docs_metadata"})
           /\ \A k \in 1..Len(pages_to_process) :
                  ValidPosition(pages_to_process[k].component_index, Len(components))

\* C10: a file index of a component that is no valid position of files is
\* skipped by the analyser, the planner and the page loop: none raises on it
\* (stated for the runs whose ordering holds valid positions only).
C10_InvalidFileIndexSkipped ==
    (/\ \E c \in 1..Len(components) : \E j \in 1..Len(components[c].files) :
            ~ValidPosition(components[c].files[j], Len(files))
     /\ \A p \in 1..Len(ordered_components) :
            ValidPosition(ordered_components[p], Len(components)))
        => ~(status = "failed" /\ failedNode \in {Analyser, Planner, Processor}
               /\ error = "IndexError: files")

\* C11: a relationship whose from_component or to_component is no valid
\* component position (below 0, or at or above the number of components)
\* makes neither the ordering stage nor the directory stage raise.
C11_InvalidRelationshipTolerated ==
    (\E k \in 1..Len(component_relationships) :
        \/ ~ValidPosition(component_relationships[k].from_component, Len(components))
        \/ ~ValidPosition(component_relationships[k].to_component, Len(components)))
        => ~(status = "failed" /\ failedNode \in {Ordering, Directory}
               /\ error = "IndexError: components")

\* the positions of the ordering that name a component and have a page
EmittedPositions ==
    {p \in 1..Len(ordered_components) :
        ValidPosition(ordered_components[p], Len(components)) /\ p <= Len(pages)}

\* C12: the directory stage writes a chapter link and a chapter file for a
\* position of the ordering exactly when the entry there is a valid component
\* position and a page exists at that position; the other positions are
\* skipped, the stage does not fail and index.md is written.
C12_ChapterIffValidAndPaged ==
    /\ (Len(history) > 0 /\ history[Len(history)] = Directory)
          => status = "done" /\ docs.written
    /\ docs.written =>
          /\ Len(docs.links) = Cardinality(EmittedPositions)
          /\ Len(docs.chapters) = Cardinality(EmittedPositions)
          /\ {docs.links[k].number : k \in 1..Len(docs.links)} = EmittedPositions
          /\ {docs.chapters[k].filename : k \in 1..Len(docs.chapters)}
                = {FileName(p, components[ordered_components[p] + 1].name) :
                      p \in EmittedPositions}

\* a run that wrote a chapter for one position and skipped the other
C12_Witness ==
    /\ status = "done"
    /\ docs.written
    /\ Len(ordered_components) = MaxOrdered
    /\ Len(pages) = MaxOrdered
    /\ Len(docs.links) = 1
    /\ Len(docs.chapters) = 1

\* the planner returned a plan
Planned == PlannerHasRun /\ failedNode # Planner

\* C13: when the plan is empty (no components, empty ordering) the router
\* sends the run from the planner straight to the directory stage: the page
\* processor never runs, and the directory stage writes index.md with no
\* chapter link and no chapter file.
C13_EmptyPlanGoesToDirectory ==
    (Planned /\ Len(pages_to_process) = 0) =>
        /\ Processor \notin active
        /\ \A i \in 1..Len(history) : history[i] # Processor
        /\ status = "running" => active = {Directory}
        /\ status = "done" =>
              /\ history = LinearStages \o <<Directory>>
              /\ docs.written
              /\ docs.links = <<>>
              /\ docs.chapters = <<>>

\* a completed run on an empty component list
C13_Witness ==
    /\ status = "done"
    /\ components = <<>>
    /\ ordered_components = <<>>
    /\ pages_to_process = <<>>
    /\ docs.written
    /\ docs.links = <<>>

\* ordered is a permutation of 0..n-1
IsPermutation(ordered, n) ==
    Len(ordered) = n /\ {ordered[p] : p \in 1..Len(ordered)} = 0..(n - 1)

\* C14: in a completed run with n components, m relationships and an
\* ordering that is a permutation of 0..n-1, index.md holds exactly n
\* diagram nodes, one for each component, exactly m diagram edges, one for
\* each relationship, and exactly n chapter links numbered 1..n in the order
\* of the ordering.
C14_IndexCounts ==
    (status = "done" /\ IsPermutation(ordered_components, Len(components))) =>
        /\ Len(docs.nodes) = Len(components)
        /\ \A i \in 1..Len(docs.nodes) :
              docs.nodes[i].id = i - 1 /\ docs.nodes[i].label = components[i].name
        /\ Len(docs.edges) = Len(component_relationships)
        /\ \A k \in 1..Len(docs.edges) :
              /\ docs.edges[k].from_id = component_relationships[k].from_component
              /\ docs.edges[k].to_id = component_relationships[k].to_component
        /\ Len(docs.links) = Len(components)
        /\ \A p \in 1..Len(docs.links) :
              /\ docs.links[p].number = p
              /\ docs.links[p].name = components[ordered_components[p] + 1].name

\* a completed run of two components, ordered last first, with a relationship
C14_Witness ==
    /\ status = "done"
    /\ Len(components) = MaxComponents
    /\ components[1].name # components[MaxComponents].name
    /\ IsPermutation(ordered_components, Len(components))
    /\ ordered_components[1] = MaxComponents - 1
    /\ Len(component_relationships) = MaxRelationships
    /\ Len(docs.links) = MaxComponents

\* the label of relationship k once quotes are removed and line breaks are
\* blanks
Stripped(k) == NewlinesToSpaces(RemoveQuotes(component_relationships[k].label))

\* C15: the directory stage renders a label that is longer than 30
\* characters after the stripping of quotes and line breaks as its first 27
\* characters followed by "...", 30 characters in all; it renders a label
\* of at most 30 characters unchanged; so no rendered label is longer than
\* 30 characters.
C15_EdgeLabelTruncated ==
    docs.written =>
        /\ Len(docs.edges) = Len(component_relationships)
        /\ \A k \in 1..Len(docs.edges) :
              LET rendered == docs.edges[k].label
              IN  /\ Len(Stripped(k)) > 30 =>
                        /\ rendered = SubSeq(Stripped(k), 1, 27) \o <<".", ".", ".">>
                        /\ Len(rendered) = 30
                  /\ Len(Stripped(k)) <= 30 => rendered = Stripped(k)
                  /\ Len(rendered) <= 30

\* a written diagram with an edge whose label was cut: 31 characters once its
\* quote is removed
C15_Witness ==
    /\ docs.written
    /\ \E k \in 1..Len(docs.edges) :
          /\ Len(component_relationships[k].label) = 32
          /\ Len(Stripped(k)) = 31
          /\ Len(docs.edges[k].label) = 30

\* C16: pages accumulate in the order of the ordering: the page at position
\* i was generated by the page loop as chapter i for the component that
\* ordered_components[i] names, and the chapter file the directory stage
\* writes for position i holds pages[i] under the number i and the name of
\* that component.
C16_PagesInOrderingOrder ==
    /\ Len(prompts) = Len(pages)
    /\ \A i \in 1..Len(pages) :
          /\ prompts[i].component_num = i
          /\ prompts[i].component_index = ordered_components[i]
          /\ prompts[i].component_name
                = PyGet(components, ordered_components[i]).name
    /\ docs.written =>
          \A k \in 1..Len(docs.chapters) :
              LET p == docs.links[k].number
                  name == components[ordered_components[p] + 1].name
              IN  /\ StartsWith(docs.chapters[k].content, pages[p])
                  /\ docs.chapters[k].filename = FileName(p, name)
                  /\ docs.links[k].filename = FileName(p, name)
                  /\ docs.links[k].name = name
                  /\ prompts[p].component_name = name

\* a completed run of two chapters whose ordering is not the identity
C16_Witness ==
    /\ status = "done"
    /\ Len(pages) = MaxOrdered
    /\ Len(docs.chapters) = MaxOrdered
    /\ ordered_components[1] > ordered_components[MaxOrdered]
    /\ components[1].name # components[Len(components)].name

\* the stages of the run so far that call the external service
CallingStages == {i \in 1..Len(history) : history[i] # Planner}

\* C17: a failure of the external service in any stage is fatal and not
\* retried, under cli.main and under main.main: the failing call was issued
\* once, no stage runs after it, no document is written, and the process
\* ends with a non-zero exit status.
C17_ServiceFailureIsFatal ==
    (status = "failed" /\ error = "ServiceError") =>
        /\ active = {}
        /\ history[Len(history)] = failedNode
        /\ extCalls = Cardinality(CallingStages)
        /\ ~docs.written
        /\ exit_status.exited
        /\ exit_status.code # 0

\* the names of the stages, as a message could give them
StageNames == {Segregator, Analyser, Ordering, Planner, Processor, Directory}

\* C18: when a fatal error aborts the run, the message reported to the user
\* identifies the stage in which the failure occurred (stated for the
\* failures whose text the interpreter fixes, the IndexErrors).
C18_MessageNamesStage ==
    (status = "failed" /\ error # "ServiceError") =>
        /\ exit_status.exited
        /\ \E i \in 1..Len(exit_status.message) :
              exit_status.message[i] \in StageNames
              /\ exit_status.message[i] = failedNode

\* the entry point was started, with the API key set, on a path that is
\* missing or no directory, or on a directory that yields no file
InputError ==
    /\ entry # "none"
    /\ environment.api_key
    /\ environment.directory # "dir" \/ environment.extracted = 0

\* C19: an input error is fatal before any stage runs, under cli.main and
\* under main.main: the process ends with an error report and a non-zero
\* exit status, and no stage has run, so no external call was issued and no
\* document was written.
C19_InputErrorsAreFatal ==
    InputError =>
        /\ exit_status.exited
        /\ exit_status.code # 0
        /\ exit_status.message # <<>>
        /\ run = 0
        /\ active = {}
        /\ history = <<>>
        /\ extCalls = 0
        /\ ~docs.written

\* C20: for an ordering that is a permutation of 0..n-1, the plan entry at
\* position i has as prev_page the page metadata of position i-1 (none at
\* the first position) and as next_page the page metadata of position i+1
\* (none at the last): the neighbours are found by position in the ordering,
\* not by component index.
C20_NeighboursByPosition ==
    (Planned /\ IsPermutation(ordered_components, Len(components))) =>
        LET meta == DocsMetadata(components, ordered_components)
        IN  \A i \in 1..Len(pages_to_process) :
                /\ pages_to_process[i].prev_page
                      = IF i > 1 THEN meta[i - 1] ELSE NoPage
                /\ pages_to_process[i].next_page
                      = IF i < Len(pages_to_process) THEN meta[i + 1] ELSE NoPage

\* the texts between the separators of a context
RECURSIVE SplitPages(_)
SplitPages(context) ==
    IF \E i \in 1..Len(context) : context[i] = PageSeparator
    THEN LET i == Min({j \in 1..Len(context) : context[j] = PageSeparator})
         IN  <<SubSeq(context, 1, i - 1)>>
                 \o SplitPages(SubSeq(context, i + 1, Len(context)))
    ELSE <<context>>

\* C21: the prompt of the page loop's iteration j (counted from 0) holds
\* exactly the j pages generated before it, pages[0..j-1], in the order of
\* generation, none left out, repeated or moved; for j = 0 it holds no page.
C21_ContextHoldsEarlierPages ==
    \A j \in 1..Len(prompts) :
        IF j = 1 THEN prompts[j].prev_pages_context = FirstChapterNote
        ELSE SplitPages(prompts[j].prev_pages_context) = SubSeq(pages, 1, j - 1)

\* a third page was generated from a prompt holding the two before it
C21_Witness ==
    /\ Len(prompts) = MaxLoopPages
    /\ Len(pages) = MaxLoopPages
    /\ pages[1] # pages[2]
    /\ Len(SplitPages(prompts[MaxLoopPages].prev_pages_context)) = MaxLoopPages - 1

\* the step is an iteration of the page loop that returned
IterationReturns ==
    /\ Processor \in active
    /\ history' = Append(history, Processor)
    /\ status' # "failed"

\* C22: the page log is append-only and in step with the cursor: within a
\* run every step keeps the pages it finds as a prefix, an iteration of the
\* page loop appends exactly one page and adds exactly 1 to pages_processed,
\* and in every state len(pages) = pages_processed <= len(pages_to_process).
C22_PageLogAppendOnly ==
    [][/\ run' = run =>
            /\ Len(pages') >= Len(pages)
            /\ SubSeq(pages', 1, Len(pages)) = pages
       /\ IterationReturns =>
            /\ Len(pages') = Len(pages) + 1
            /\ pages_processed' = pages_processed + 1
       /\ Len(pages') = pages_processed'
       /\ pages_processed' <= Len(pages_to_process')]_vars

\* the page loop has appended its second page
C22_Witness ==
    /\ Processor \in active \/ Directory \in active
    /\ Len(pages) = MaxOrdered
    /\ pages_processed = MaxOrdered
    /\ history[Len(history)] = Processor

\* C23: no stage changes the output of an earlier stage: a step of a stage
\* changes only that stage's own fields (segregator: components; analyser:
\* project_overview and component_relationships; ordering:
\* ordered_components; planner: pages_to_process and pages_processed; page
\* loop: pages and pages_processed; directory stage: output_path) and leaves
\* files, project_name, max_components and every other field as they were.
C23_StagesWriteOwnFields ==
    [][\A node \in StageNames :
          (run' = run /\ history' = Append(history, node)) =>
              /\ files' = files
              /\ project_name' = project_name
              /\ max_components' = max_components
              /\ node # Segregator => components' = components
              /\ node # Analyser =>
                    /\ project_overview' = project_overview
                    /\ component_relationships' = component_relationships
              /\ node # Ordering => ordered_components' = ordered_components
              /\ node # Planner => pages_to_process' = pages_to_process
              /\ node \notin {Planner, Processor} => pages_processed' = pages_processed
              /\ node # Processor => pages' = pages
              /\ node # Directory => output_path' = output_path]_vars

\* a completed run: every stage has written its fields and the earlier
\* outputs are still there
C23_Witness ==
    /\ status = "done"
    /\ components # <<>>
    /\ component_relationships # <<>>
    /\ ordered_components # <<>>
    /\ Len(pages) = Len(pages_to_process)
    /\ pages # <<>>
    /\ output_path # <<>>

\* C24: the chapter file names of the planner and of the directory stage
\* agree and are determined by the inputs: the plan is a function of
\* components and ordered_components alone, and every chapter the directory
\* stage writes for a position i carries the file_name of the plan entry at
\* i, which is the two-digit i+1, "_", the sanitized name of the component
\* ordered_components[i], ".md".
C24_FileNamesAgree ==
    /\ Planned => pages_to_process = PagesToProcess(components, ordered_components)
    /\ docs.written =>
          \A k \in 1..Len(docs.chapters) :
              LET p == docs.links[k].number
                  name == components[ordered_components[p] + 1].name
              IN  /\ docs.chapters[k].filename = pages_to_process[p].file_name
                  /\ docs.chapters[k].filename
                        = ZeroPad2(p) \o <<"_">> \o Sanitize(NameChars(name)) \o <<".md">>

\* a completed run that wrote two chapters whose names differ in more than
\* the number
C24_Witness ==
    /\ status = "done"
    /\ Len(docs.chapters) = MaxOrdered
    /\ Len(pages_to_process) = MaxOrdered
    /\ Sanitize(NameChars(PyGet(components, ordered_components[1]).name))
          # Sanitize(NameChars(PyGet(components, ordered_components[MaxOrdered]).name))

\* the sanitized name inside a file name: what stands between the number
\* with its "_" and the ".md"
SafeName(file_name) == SubSeq(file_name, 4, Len(file_name) - 1)

\* C25: the sanitization of file names is idempotent: for every component
\* name, the sanitized name that the planner puts into a file name is left
\* as it is by a second sanitization (stated for the plan entries of valid
\* component positions).
C25_SanitizeIdempotent ==
    \A k \in 1..Len(pages_to_process) :
        ValidPosition(pages_to_process[k].component_index, Len(components)) =>
            LET name == components[pages_to_process[k].component_index + 1].name
                safe_name == SafeName(pages_to_process[k].file_name)
            IN  /\ safe_name = Sanitize(NameChars(name))
                /\ Sanitize(safe_name) = safe_name

(***************************************************************************)
(* Concurrent and uncached invocations of call_llm.                        *)
(***************************************************************************)
\* the table of agent_cache.json holds an entry for the payload of caller c
EntryPresent(c) ==
    /\ cacheFile.kind = "dict"
    /\ cacheFile.table[HashKey(calls[c].ctx, "None")] # Missing

\* no caller entered call_llm while another was inside it
StrictlySequential == \A c \in Callers : ~calls[c].during

C27_UncachedCallBypassesTable ==
    [][(lastCall'.outcome # "none" /\ ~lastCall'.use_cache)
          => /\ cacheFile' = cacheFile
             /\ lastCall'.outcome # "hit"
             /\ lastCall'.invoked]_vars

\* C27: an uncached invocation has called the service and returned its
\* output although the table holds an entry for the same payload
C27_Witness ==
    /\ ~lastCall.use_cache
    /\ lastCall.outcome = "returned"
    /\ lastCall.invoked
    /\ cacheFile.kind = "dict"
    /\ cacheFile.table[HashKey(lastCall.ctx, lastCall.type)] # Missing
    /\ lastCall.ret = lastCall.output
====
